---- MODULE Spec2Model ----
(***************************************************************************)
(* The Message entity of guilded.js (lib/structures/Message.ts) and the    *)
(* caches it is read through.  A message object lives in `heap` under an   *)
(* object reference; the message cache maps a message id to a reference.   *)
(* JavaScript values are tagged records, so that undefined, null, NaN, 0,  *)
(* "" and an absent key stay distinct, as they are for `in`, `??`,         *)
(* `typeof` and truthiness in the source.                                  *)
(*                                                                         *)
(* Specifications: Spec (creation and update events), SpecRead (reads of   *)
(* the accessors over varied sibling caches), SpecLife (updates with the   *)
(* timestamp getters read in between), SpecAct (the action methods, their  *)
(* requests in `outbox` and the settlement of their promises) and          *)
(* SpecReact (construction of MessageReaction objects in `reactions`).     *)
(***************************************************************************)
EXTENDS Integers, Sequences, FiniteSets, TLC

VARIABLES
    heap,       \* object reference -> Message object (its fields)
    nextRef,    \* next unused object reference (messages and embeds)
    cache,      \* client.messages.cache : message id -> object reference
    users,      \* client.users.cache    : user id -> object reference
    channels,   \* client.channels.cache : channel id -> object reference
    servers,    \* client.servers.cache  : server id -> object reference
    members,    \* client.members.cache  : member key -> object reference
    reactions,  \* object reference -> MessageReaction object (its fields)
    outbox,     \* requests handed to the transport and not yet settled
    ret,        \* the last operation: its name, its receiver and its result
    carried     \* history: per message and payload key, the value of the most
                \* recent payload that carried the key

vars == <<heap, nextRef, cache, users, channels, servers, members, reactions,
          outbox, ret, carried>>

-----------------------------------------------------------------------------
(* Bounds *)

MaxRef == 3         \* object references that may be allocated
MaxKeys == 2        \* recognised keys one update payload carries at most
MaxReq == 2         \* requests the transport holds unsettled at most
MaxReactions == 2   \* reaction objects constructed at most

-----------------------------------------------------------------------------
(* JavaScript values *)

Undefined == [t |-> "undefined"]
Null == [t |-> "null"]
NaN == [t |-> "NaN"]
Num(n) == [t |-> "number", v |-> n]
Str(s) == [t |-> "string", v |-> s]
Bool(b) == [t |-> "boolean", v |-> b]
Arr(s) == [t |-> "array", v |-> s]
Obj(o) == [t |-> "object", ref |-> o]

\* `k in data`
In(k, data) == k \in DOMAIN data

\* `data.k`: reading a key the object lacks gives undefined
Get(data, k) == IF k \in DOMAIN data THEN data[k] ELSE Undefined

\* `typeof v !== "undefined"`
IsDefined(v) == v.t # "undefined"

\* `a ?? b`: b exactly when a is null or undefined
Coalesce(a, b) == IF a.t \in {"undefined", "null"} THEN b ELSE a

\* the truthiness test of `v ? .. : ..`, `!v` and `!!v`
Truthy(v) ==
    CASE v.t \in {"undefined", "null", "NaN"} -> FALSE
      [] v.t = "number" -> v.v # 0
      [] v.t = "string" -> v.v # ""
      [] v.t = "boolean" -> v.v
      [] OTHER -> TRUE

\* ISO timestamps used in payloads, with the milliseconds Date.parse gives
T0S == "1970-01-01T00:00:00.000Z"
T1S == "1970-01-01T00:00:01.000Z"
T2S == "1970-01-01T00:00:02.000Z"

\* Date.parse: milliseconds since the epoch, NaN for anything unparseable
\* (undefined, null, "" and malformed strings included)
DateParse(v) ==
    CASE v = Str(T0S) -> Num(0)
      [] v = Str(T1S) -> Num(1000)
      [] v = Str(T2S) -> Num(2000)
      [] OTHER -> NaN

-----------------------------------------------------------------------------
(* Collaborators of Message: Base, Embed, the key builder, the caches *)

\* Base constructor: the identity is the payload's id
Base(data) == [id |-> Get(data, "id")]

\* new Embed(x): a fresh object wrapping the raw embed
Embed(x, oid) == [oid |-> oid, raw |-> x]

\* buildMemberKey(serverId, userId): one key per (server, user) pair
buildMemberKey(serverId, userId) == <<serverId, userId>>

\* cache.get(key): the cached object, undefined when the key is not cached
CacheGet(c, key) == IF key \in DOMAIN c THEN Obj(c[key]) ELSE Undefined

-----------------------------------------------------------------------------
(* class Message *)

\* enum MessageType { Default, System }
Default == 0
System == 1

\* The constructor up to, and excluding, its final this._update(data)
NewMessage(data) ==
    [ id                 |-> Base(data).id,
      mentions           |-> Undefined,
      deleted            |-> FALSE,
      _deletedAt         |-> Null,
      embeds             |-> << >>,
      isReply            |-> Truthy(Get(data, "replyMessageIds")),
      channelId          |-> Get(data, "channelId"),
      groupId            |-> Coalesce(Get(data, "groupId"), Null),
      content            |-> Coalesce(Get(data, "content"), Str("")),
      serverId           |-> Coalesce(Get(data, "serverId"), Null),
      replyMessageIds    |-> Coalesce(Get(data, "replyMessageIds"), Arr(<< >>)),
      createdById        |-> Get(data, "createdBy"),
      createdByWebhookId |-> Coalesce(Get(data, "createdByWebhookId"), Null),
      _createdAt         |-> DateParse(Get(data, "createdAt")),
      _updatedAt         |-> Null,
      isPrivate          |-> Coalesce(Get(data, "isPrivate"), Bool(FALSE)),
      isSilent           |-> Coalesce(Get(data, "isSilent"), Bool(FALSE)),
      type               |-> IF Get(data, "type") = Str("system")
                             THEN Num(System) ELSE Num(Default) ]

\* variant of updateContent: tests the value's truthiness, `if (data.content)`
updateContentTruthy(m, data) ==
    IF Truthy(Get(data, "content"))
    THEN [m EXCEPT !.content = Get(data, "content")]
    ELSE m

\* if ("content" in data && typeof data.content !== "undefined")
updateContent(m, data) ==
    IF In("content", data) /\ IsDefined(Get(data, "content"))
    THEN [m EXCEPT !.content = Get(data, "content")]
    ELSE m

\* variant of updateMentions: assigns data.mentions without testing the key
updateMentionsAlways(m, data) == [m EXCEPT !.mentions = Get(data, "mentions")]

\* variant of updateMentions: treats an undefined value like a missing key
updateMentionsDefined(m, data) ==
    IF In("mentions", data) /\ IsDefined(Get(data, "mentions"))
    THEN [m EXCEPT !.mentions = Get(data, "mentions")]
    ELSE m

\* if ("mentions" in data)
updateMentions(m, data) ==
    IF In("mentions", data)
    THEN [m EXCEPT !.mentions = Get(data, "mentions")]
    ELSE m

\* variant of updateUpdatedAt: parses data.createdAt in place of data.updatedAt
updateUpdatedAtFromCreatedAt(m, data) ==
    IF In("updatedAt", data)
    THEN [m EXCEPT !._updatedAt = IF Truthy(Get(data, "updatedAt"))
                                  THEN DateParse(Get(data, "createdAt"))
                                  ELSE Null]
    ELSE m

\* variant of updateUpdatedAt: assigns only when the value is truthy, and so
\* never resets
updateUpdatedAtTruthy(m, data) ==
    IF Truthy(Get(data, "updatedAt"))
    THEN [m EXCEPT !._updatedAt = DateParse(Get(data, "updatedAt"))]
    ELSE m

\* if ("updatedAt" in data)
updateUpdatedAt(m, data) ==
    IF In("updatedAt", data)
    THEN [m EXCEPT !._updatedAt = IF Truthy(Get(data, "updatedAt"))
                                  THEN DateParse(Get(data, "updatedAt"))
                                  ELSE Null]
    ELSE m

\* variant of updateDeletedAt: `this.deleted = !!data.deletedAt`
updateDeletedAtTruthy(m, data) ==
    IF In("deletedAt", data)
    THEN [m EXCEPT !.deleted = Truthy(Get(data, "deletedAt")),
                   !._deletedAt = DateParse(Get(data, "deletedAt"))]
    ELSE m

\* if ("deletedAt" in data)
updateDeletedAt(m, data) ==
    IF In("deletedAt", data)
    THEN [m EXCEPT !.deleted = TRUE,
                   !._deletedAt = DateParse(Get(data, "deletedAt"))]
    ELSE m

\* data.embeds?.map((x) => new Embed(x)) ?? []
\* the embeds constructed from the raw array, the first one at reference n
MapEmbeds(e, n) ==
    IF e.t \in {"undefined", "null"}
    THEN << >>
    ELSE [i \in 1..Len(e.v) |-> Embed(e.v[i], n + i - 1)]

\* variant of updateEmbeds: keeps the previous embeds when the payload's array
\* is missing or empty
updateEmbedsNonEmpty(m, data, n) ==
    IF In("embeds", data) /\ MapEmbeds(Get(data, "embeds"), n) # << >>
    THEN [m EXCEPT !.embeds = MapEmbeds(Get(data, "embeds"), n)]
    ELSE m

\* variant of updateEmbeds: adds the payload's embeds to the ones already there
updateEmbedsAppend(m, data, n) ==
    IF In("embeds", data)
    THEN [m EXCEPT !.embeds = m.embeds \o MapEmbeds(Get(data, "embeds"), n)]
    ELSE m

\* if ("embeds" in data)
updateEmbeds(m, data, n) ==
    IF In("embeds", data)
    THEN [m EXCEPT !.embeds = MapEmbeds(Get(data, "embeds"), n)]
    ELSE m

\* variant of _update: applies the payload to a copy of the object and
\* returns the copy
_updateCopy(st, self, data) ==
    LET copy == st.next
        m1 == updateContent(st.heap[self], data)
        m2 == updateMentions(m1, data)
        m3 == updateUpdatedAt(m2, data)
        m4 == updateDeletedAt(m3, data)
        m5 == updateEmbeds(m4, data, copy + 1)
    IN  [ heap |-> st.heap @@ (copy :> m5),
          next |-> copy + 1 + Len(m5.embeds) * (IF In("embeds", data) THEN 1 ELSE 0),
          ret  |-> copy ]

\* variant of _update: also takes channelId from the payload
_updateChannelId(st, self, data) ==
    LET m0 == st.heap[self]
        m1 == updateContent(IF In("channelId", data)
                            THEN [m0 EXCEPT !.channelId = Get(data, "channelId")]
                            ELSE m0, data)
        m2 == updateMentions(m1, data)
        m3 == updateUpdatedAt(m2, data)
        m4 == updateDeletedAt(m3, data)
        m5 == updateEmbeds(m4, data, st.next)
    IN  [ heap |-> [st.heap EXCEPT ![self] = m5],
          next |-> st.next + Len(m5.embeds) * (IF In("embeds", data) THEN 1 ELSE 0),
          ret  |-> self ]

\* Message._update on the object `self` of the store st = [heap, next]:
\* the store afterwards and the returned reference
_update(st, self, data) ==
    LET m1 == updateContent(st.heap[self], data)
        m2 == updateMentions(m1, data)
        m3 == updateUpdatedAt(m2, data)
        m4 == updateDeletedAt(m3, data)
        m5 == updateEmbeds(m4, data, st.next)
    IN  [ heap |-> [st.heap EXCEPT ![self] = m5],
          next |-> st.next + Len(m5.embeds) * (IF In("embeds", data) THEN 1 ELSE 0),
          ret  |-> self ]

\* new Message(client, data): allocate, assign the fields, then _update(data)
Message(st, data) ==
    LET self == st.next
    IN  _update([heap |-> st.heap @@ (self :> NewMessage(data)),
                 next |-> st.next + 1], self, data)

\* new Date(ms)
Date(ms) == [t |-> "Date", ms |-> ms]

\* get createdAt
createdAt(m) == Date(m._createdAt)

\* get updatedAt
updatedAt(m) == IF Truthy(m._updatedAt) THEN Date(m._updatedAt) ELSE Null

\* variant of deletedAt: tests the deleted flag in place of the timestamp
deletedAtOfDeleted(m) == IF m.deleted THEN Date(m._deletedAt) ELSE Null

\* get deletedAt
deletedAt(m) == IF Truthy(m._deletedAt) THEN Date(m._deletedAt) ELSE Null

\* variant of url: channelId and id interchanged
urlSwapped(m) ==
    IF ~Truthy(m.serverId)
    THEN Str("")
    ELSE Str("https://www.guilded.gg/chat/" \o m.id.v
             \o "?messageId=" \o m.channelId.v)

\* get url
url(m) ==
    IF ~Truthy(m.serverId)
    THEN Str("")
    ELSE Str("https://www.guilded.gg/chat/" \o m.channelId.v
             \o "?messageId=" \o m.id.v)

\* get author
author(m) == Coalesce(CacheGet(users, m.createdById), Null)

\* variant of authorId: `createdByWebhookId || createdById`
authorIdOr(m) ==
    IF Truthy(m.createdByWebhookId) THEN m.createdByWebhookId ELSE m.createdById

\* get authorId
authorId(m) == Coalesce(m.createdByWebhookId, m.createdById)

\* variant of member: keyed by createdById in place of authorId
memberOfCreator(m) ==
    IF Truthy(m.serverId)
    THEN Coalesce(CacheGet(members, buildMemberKey(m.serverId, m.createdById)), Null)
    ELSE Null

\* get member
member(m) ==
    IF Truthy(m.serverId)
    THEN Coalesce(CacheGet(members, buildMemberKey(m.serverId, authorId(m))), Null)
    ELSE Null

\* get channel
channel(m) == Coalesce(CacheGet(channels, m.channelId), Null)

\* get server
server(m) ==
    IF Truthy(m.serverId)
    THEN Coalesce(CacheGet(servers, m.serverId), Null)
    ELSE Null

-----------------------------------------------------------------------------
(* Message: the action methods, and the util and transport they call *)

\* util.resolveContentToData: a plain string becomes { content }, a content
\* object is kept, its content "" when it has none
resolveContentToData(content) ==
    IF "t" \in DOMAIN content
    THEN [content |-> content]
    ELSE [content |-> IF Truthy(Get(content, "content"))
                      THEN content["content"] ELSE Str("")] @@ content

\* { ...a, k: v }: the own keys of a, with k set to v
Spread(a, k, v) == (k :> v) @@ a

\* the states of a promise
Pending == [t |-> "promise", state |-> "pending"]
Fulfilled(v) == [t |-> "promise", state |-> "fulfilled", value |-> v]
Rejected == [t |-> "promise", state |-> "rejected", value |-> [t |-> "error"]]

\* Each action method, on the message object m: the object as the call
\* leaves it (local), the manager or router call it makes with its
\* arguments, and what its promise does with the transport's result:
\* "this" for .then(() => this), "void" for .then(() => void 0), "pass" when
\* the transport's promise is returned as it is.

\* variant of edit: also writes the new content into the message
editOptimistic(m, newContent) ==
    [ local |-> [m EXCEPT !.content = newContent],
      call |-> "messages.update", args |-> <<m.channelId, m.id, newContent>>,
      then |-> "this" ]

edit(m, newContent) ==
    [ local |-> m,
      call |-> "messages.update", args |-> <<m.channelId, m.id, newContent>>,
      then |-> "this" ]

send(m, content) ==
    [ local |-> m,
      call |-> "messages.send", args |-> <<m.channelId, content>>,
      then |-> "pass" ]

\* variant of reply: { replyMessageIds: [this.id], ...resolveContentToData(content) }
replySpreadLast(m, content) ==
    [ local |-> m,
      call |-> "messages.send",
      args |-> <<m.channelId,
                 resolveContentToData(content) @@ ("replyMessageIds" :> Arr(<<m.id>>))>>,
      then |-> "pass" ]

reply(m, content) ==
    [ local |-> m,
      call |-> "messages.send",
      args |-> <<m.channelId,
                 Spread(resolveContentToData(content), "replyMessageIds", Arr(<<m.id>>))>>,
      then |-> "pass" ]

addReaction(m, emoteId) ==
    [ local |-> m,
      call |-> "reactions.channelMessageReactionCreate",
      args |-> <<[channelId |-> m.channelId, messageId |-> m.id, emoteId |-> emoteId]>>,
      then |-> "void" ]

deleteReaction(m, emoteId) ==
    [ local |-> m,
      call |-> "reactions.channelMessageReactionDelete",
      args |-> <<[channelId |-> m.channelId, messageId |-> m.id, emoteId |-> emoteId]>>,
      then |-> "void" ]

delete(m) ==
    [ local |-> m,
      call |-> "messages.delete", args |-> <<m.channelId, m.id>>,
      then |-> "pass" ]

\* the value the method's promise is fulfilled with, given the object the
\* method was called on and the value the transport resolved to
Then(req, value) ==
    CASE req.then = "this" -> Obj(req.self)
      [] req.then = "void" -> Undefined
      [] OTHER -> value

\* what the transport resolves a request to
TransportValue(req) == [t |-> "response", call |-> req.call]

-----------------------------------------------------------------------------
(* class MessageReaction *)

\* String(n) of a non-negative integer
Digits == <<"0", "1", "2", "3", "4", "5", "6", "7", "8", "9">>
RECURSIVE NumToStr(_)
NumToStr(n) ==
    IF n < 10 THEN Digits[n + 1] ELSE NumToStr(n \div 10) \o Digits[(n % 10) + 1]

\* util.buildReactionKey(userId, emoteId)
buildReactionKey(userId, emoteId) == Str(userId.v \o ":" \o NumToStr(emoteId.v))

\* variant of MessageReaction: the key is built from messageId and emote.id
MessageReactionOfMessage(data) ==
    LET formedId == buildReactionKey(data.messageId, data.emote.id)
    IN  [ id |-> formedId, channelId |-> data.channelId,
          messageId |-> data.messageId, createdBy |-> data.createdBy,
          emote |-> data.emote, serverId |-> data.serverId ]

\* new MessageReaction(client, data): the fields of the constructed object
MessageReaction(data) ==
    LET formedId == buildReactionKey(data.createdBy, data.emote.id)
    IN  [ id |-> formedId, channelId |-> data.channelId,
          messageId |-> data.messageId, createdBy |-> data.createdBy,
          emote |-> data.emote, serverId |-> data.serverId ]

-----------------------------------------------------------------------------
(* Payloads delivered by the transport *)

\* the keys Message._update looks at
Recognised == {"content", "mentions", "updatedAt", "deletedAt", "embeds"}

\* an object without keys
EmptyObj == [k \in {} |-> Undefined]

\* the objects { k: v }, v in vals, and the object lacking k
Opt(k, vals) == {EmptyObj} \cup {(k :> v) : v \in vals}

\* the values a payload may give each recognised key
ContentValues == {Undefined, Null, Str(""), Str("hi")}
MentionsValues == {Undefined, Str("mentions-1"), Str("mentions-2")}
UpdatedAtValues == {Undefined, Null, Str(""), Str(T2S)}
DeletedAtValues == {Undefined, Str(T0S), Str(T1S)}
EmbedsValues == {Undefined, Arr(<< >>), Arr(<<"embed-1">>), Arr(<<"embed-2", "embed-1">>)}

\* identity and construction-time keys of another message, and an unknown key
OtherIdentity ==
    [ id |-> Str("M9"), channelId |-> Str("C9"), serverId |-> Str("S9"),
      createdBy |-> Str("U9"), createdAt |-> Str(T2S),
      replyMessageIds |-> Arr(<<Str("M8")>>), unknownKey |-> Str("x") ]

\* payloads with at most one recognised key, over all the values above
SinglePayloads ==
    Opt("content", ContentValues) \cup Opt("mentions", MentionsValues)
    \cup Opt("updatedAt", UpdatedAtValues) \cup Opt("deletedAt", DeletedAtValues)
    \cup Opt("embeds", EmbedsValues) \cup {OtherIdentity}

\* payloads where keys co-occur: at most MaxKeys of the five recognised keys
\* and the group of unrecognised ones
MultiPayloads ==
    { p \in { c @@ m @@ u @@ d @@ e @@ o :
                c \in Opt("content", {Str(""), Str("hi")}),
                m \in Opt("mentions", {Undefined, Str("mentions-1")}),
                u \in Opt("updatedAt", {Str(T2S)}),
                d \in Opt("deletedAt", {Str(T1S)}),
                e \in Opt("embeds", {Arr(<<"embed-1">>)}),
                o \in {EmptyObj, OtherIdentity} } :
        Cardinality(DOMAIN p \cap (Recognised \cup {"id"})) <= MaxKeys }

\* partial-update payloads
UpdatePayloads == SinglePayloads \cup MultiPayloads

\* the keys every creation payload carries
CreateBase(id) ==
    [ id |-> id, channelId |-> Str("C1"), createdBy |-> Str("U1"),
      createdAt |-> Str(T1S), type |-> Str("default") ]

MsgIds == {Str("M1")}

\* creation payloads of the update specification
CreatePayloads ==
    { CreateBase(id) @@ c @@ x :
        id \in MsgIds,
        c \in Opt("content", {Undefined, Null, Str(""), Str("hello")}),
        x \in {EmptyObj,
               [serverId |-> Str("S1"), replyMessageIds |-> Arr(<<Str("M0")>>),
                updatedAt |-> Str(T1S)]} }

-----------------------------------------------------------------------------
(* History: what the payloads applied to one message carried, newest wins *)

\* a payload carries a key when the key is present; it carries a content when
\* the key is present with a defined value
Carries(data, k) == In(k, data) /\ (k = "content" => IsDefined(data[k]))

\* key -> the value of the most recent payload that carried the key
Carry(h, data) ==
    LET ks == {k \in DOMAIN data : Carries(data, k)}
    IN  [k \in DOMAIN h \cup ks |-> IF k \in ks THEN data[k] ELSE h[k]]

NoHistory == EmptyObj

-----------------------------------------------------------------------------
(* The state machine *)

Init ==
    /\ heap = EmptyObj
    /\ nextRef = 1
    /\ cache = EmptyObj
    /\ users = EmptyObj
    /\ channels = EmptyObj
    /\ servers = EmptyObj
    /\ members = EmptyObj
    /\ reactions = EmptyObj
    /\ outbox = << >>
    /\ ret = [op |-> "none", self |-> 0, val |-> Undefined]
    /\ carried = EmptyObj

\* First sight of an identity: the manager constructs the entity and caches it.
\* (r.next <= MaxRef + 1 bounds the allocated references, here and in Update.)
Create(data) ==
    LET k == Get(data, "id")
        r == Message([heap |-> heap, next |-> nextRef], data)
    IN  /\ k \notin DOMAIN cache
        /\ r.next <= MaxRef + 1
        /\ heap' = r.heap
        /\ nextRef' = r.next
        /\ cache' = cache @@ (k :> r.ret)
        /\ ret' = [op |-> "new", self |-> r.ret, val |-> Obj(r.ret)]
        /\ carried' = carried @@ (r.ret :> Carry(NoHistory, data))
        /\ UNCHANGED <<users, channels, servers, members, reactions, outbox>>

\* Later sight of identity k: the manager hands the payload to the cached
\* entity's _update
Update(k, data) ==
    /\ k \in DOMAIN cache
    /\ LET self == cache[k]
           r == _update([heap |-> heap, next |-> nextRef], self, data)
       IN  /\ r.next <= MaxRef + 1
           /\ heap' = r.heap
           /\ nextRef' = r.next
           /\ ret' = [op |-> "_update", self |-> self, val |-> Obj(r.ret)]
           /\ carried' = [carried EXCEPT ![self] = Carry(@, data)]
    /\ UNCHANGED <<cache, users, channels, servers, members, reactions, outbox>>

Next ==
    \/ \E data \in CreatePayloads : Create(data)
    \/ \E k \in MsgIds, data \in UpdatePayloads : Update(k, data)

Spec == Init /\ [][Next]_vars

-----------------------------------------------------------------------------
(* Reading a message: the accessor specification *)

\* creation payloads that vary the foreign keys the accessors read
ReadCreatePayloads ==
    { CreateBase(id) @@ s @@ w @@ c :
        id \in MsgIds,
        s \in Opt("serverId", {Null, Str(""), Str("S1")}),
        w \in Opt("createdByWebhookId", {Null, Str(""), Str("W1")}),
        c \in {EmptyObj, [content |-> Str("hello")]} }

\* the entities the sibling caches may hold, each a distinct object
AllUsers == (Str("U1") :> 101) @@ (Str("W1") :> 102) @@ (Str("") :> 103)
AllChannels == (Str("C1") :> 201)
AllServers == (Str("S1") :> 301) @@ (Str("") :> 302)
AllMembers ==
    (buildMemberKey(Str("S1"), Str("U1")) :> 401)
    @@ (buildMemberKey(Str("S1"), Str("W1")) :> 402)
    @@ (buildMemberKey(Str(""), Str("U1")) :> 403)

\* the caches holding some of the entities of c
SubCaches(c) == {[k \in K |-> c[k]] : K \in SUBSET DOMAIN c}

InitRead ==
    /\ heap = EmptyObj
    /\ nextRef = 1
    /\ cache = EmptyObj
    /\ users \in SubCaches(AllUsers)
    /\ channels \in SubCaches(AllChannels)
    /\ servers \in SubCaches(AllServers)
    /\ members \in SubCaches(AllMembers)
    /\ reactions = EmptyObj
    /\ outbox = << >>
    /\ ret = [op |-> "none", self |-> 0, val |-> Undefined]
    /\ carried = EmptyObj

\* variant of Read: a channel miss leaves a placeholder entry in the channel
\* cache
ReadCaching(op, r, val) ==
    /\ ret' = [op |-> op, self |-> r, val |-> val]
    /\ channels' = IF op = "channel" /\ val = Null
                   THEN (heap[r].channelId :> 0) @@ channels
                   ELSE channels
    /\ UNCHANGED <<heap, nextRef, cache, users, servers, members,
                   reactions, outbox, carried>>

\* a read of accessor `op` on the message object r, giving val
Read(op, r, val) ==
    /\ ret' = [op |-> op, self |-> r, val |-> val]
    /\ UNCHANGED <<heap, nextRef, cache, users, channels, servers, members,
                   reactions, outbox, carried>>

GetCreatedAt == \E r \in DOMAIN heap : Read("createdAt", r, createdAt(heap[r]))
GetUpdatedAt == \E r \in DOMAIN heap : Read("updatedAt", r, updatedAt(heap[r]))
GetDeletedAt == \E r \in DOMAIN heap : Read("deletedAt", r, deletedAt(heap[r]))
GetUrl == \E r \in DOMAIN heap : Read("url", r, url(heap[r]))
GetAuthor == \E r \in DOMAIN heap : Read("author", r, author(heap[r]))
GetAuthorId == \E r \in DOMAIN heap : Read("authorId", r, authorId(heap[r]))
GetMember == \E r \in DOMAIN heap : Read("member", r, member(heap[r]))
GetChannel == \E r \in DOMAIN heap : Read("channel", r, channel(heap[r]))
GetServer == \E r \in DOMAIN heap : Read("server", r, server(heap[r]))

NextRead ==
    \/ \E data \in ReadCreatePayloads : Create(data)
    \/ GetCreatedAt
    \/ GetUpdatedAt
    \/ GetDeletedAt
    \/ GetUrl
    \/ GetAuthor
    \/ GetAuthorId
    \/ GetMember
    \/ GetChannel
    \/ GetServer

SpecRead == InitRead /\ [][NextRead]_vars

-----------------------------------------------------------------------------
(* Updates and deletions, with the timestamp getters read in between *)

\* update payloads of the timestamp specification
LifePayloads ==
    Opt("updatedAt", UpdatedAtValues) \cup Opt("deletedAt", DeletedAtValues)
    \cup {[content |-> Str("hi")], [mentions |-> Str("mentions-1")],
          [deletedAt |-> Str(T1S), updatedAt |-> Str(T2S)]}

NextLife ==
    \/ \E data \in CreatePayloads : Create(data)
    \/ \E k \in MsgIds, data \in LifePayloads : Update(k, data)
    \/ GetCreatedAt
    \/ GetUpdatedAt
    \/ GetDeletedAt

SpecLife == Init /\ [][NextLife]_vars

-----------------------------------------------------------------------------
(* Action methods: calls handed to the transport, settled later, while
   update events keep arriving *)

\* creation payloads: one message, in one of two channels
ActCreatePayloads ==
    { [CreateBase(Str("M1")) EXCEPT !.channelId = c] @@ [content |-> Str("hello")] :
        c \in {Str("C1"), Str("C2")} }

\* the update events that may follow
ActUpdatePayloads == {[content |-> Str("edited")], [deletedAt |-> Str(T1S)]}

\* what callers pass as content: a plain string, and content objects with and
\* without a reply-target list of their own
ContentInputs ==
    { Str("yo"),
      [content |-> Str("yo"), isPrivate |-> Bool(TRUE)],
      [content |-> Str("yo"), embeds |-> Arr(<<"embed-1">>),
       replyMessageIds |-> Arr(<<Str("M7")>>)] }

EmoteIds == {Num(42)}

\* the method `op` called with arg on the message object r, res being what the
\* method does: the call goes to the transport and a pending promise returns
Call(op, r, arg, res) ==
    /\ Len(outbox) < MaxReq
    /\ heap' = [heap EXCEPT ![r] = res.local]
    /\ outbox' = Append(outbox, [ method |-> op, self |-> r, call |-> res.call,
                                  args |-> res.args, then |-> res.then ])
    /\ ret' = [op |-> op, self |-> r, arg |-> arg, val |-> Pending]
    /\ UNCHANGED <<nextRef, cache, users, channels, servers, members, reactions,
                   carried>>

Edit ==
    \E r \in DOMAIN heap, newContent \in {Str("edited")} :
        Call("edit", r, newContent, edit(heap[r], newContent))
Send ==
    \E r \in DOMAIN heap, content \in ContentInputs :
        Call("send", r, content, send(heap[r], content))
Reply ==
    \E r \in DOMAIN heap, content \in ContentInputs :
        Call("reply", r, content, reply(heap[r], content))
AddReaction ==
    \E r \in DOMAIN heap, emoteId \in EmoteIds :
        Call("addReaction", r, emoteId, addReaction(heap[r], emoteId))
DeleteReaction ==
    \E r \in DOMAIN heap, emoteId \in EmoteIds :
        Call("deleteReaction", r, emoteId, deleteReaction(heap[r], emoteId))
Delete ==
    \E r \in DOMAIN heap : Call("delete", r, Undefined, delete(heap[r]))

\* the outbox without its i-th request
Without(q, i) == SubSeq(q, 1, i - 1) \o SubSeq(q, i + 1, Len(q))

\* the transport resolves the i-th request: the method's promise is fulfilled
Resolve(i) ==
    /\ i \in 1..Len(outbox)
    /\ outbox' = Without(outbox, i)
    /\ ret' = [ op |-> outbox[i].method, self |-> outbox[i].self,
                val |-> Fulfilled(Then(outbox[i], TransportValue(outbox[i]))) ]
    /\ UNCHANGED <<heap, nextRef, cache, users, channels, servers, members,
                   reactions, carried>>

\* the transport fails the i-th request: the method's promise is rejected
Reject(i) ==
    /\ i \in 1..Len(outbox)
    /\ outbox' = Without(outbox, i)
    /\ ret' = [op |-> outbox[i].method, self |-> outbox[i].self, val |-> Rejected]
    /\ UNCHANGED <<heap, nextRef, cache, users, channels, servers, members,
                   reactions, carried>>

NextAct ==
    \/ \E data \in ActCreatePayloads : Create(data)
    \/ \E k \in MsgIds, data \in ActUpdatePayloads : Update(k, data)
    \/ Edit
    \/ Send
    \/ Reply
    \/ AddReaction
    \/ DeleteReaction
    \/ Delete
    \/ \E i \in 1..MaxReq : Resolve(i)
    \/ \E i \in 1..MaxReq : Reject(i)

SpecAct == Init /\ [][NextAct]_vars

-----------------------------------------------------------------------------
(* Reactions delivered by the transport, each constructed as an object *)

\* the flattened reaction payloads
ReactionPayloads ==
    { [ channelId |-> Str("C1"), messageId |-> mid, createdBy |-> u,
        emote |-> [id |-> e, name |-> Str("emote")], serverId |-> Str("S1") ] :
        mid \in {Str("M1"), Str("M2")},
        u \in {Str("U1"), Str("U2"), Str("U")},
        e \in {Num(42), Num(43), Num(2), Num(12)} }

\* a reaction event arrives and its object is constructed
NewReaction(data) ==
    /\ nextRef <= MaxReactions
    /\ reactions' = (nextRef :> MessageReaction(data)) @@ reactions
    /\ nextRef' = nextRef + 1
    /\ ret' = [op |-> "newReaction", self |-> nextRef, val |-> Obj(nextRef)]
    /\ UNCHANGED <<heap, cache, users, channels, servers, members, outbox, carried>>

NextReact == \E data \in ReactionPayloads : NewReaction(data)

SpecReact == Init /\ [][NextReact]_vars

-----------------------------------------------------------------------------
(* Properties *)

\* the message object r as _update(data) would leave it in the current state
After(r, data) == _update([heap |-> heap, next |-> nextRef], r, data).heap[r]

\* the message objects constructed for identity k
ObjectsOf(k) == {r \in DOMAIN heap : heap[r].id = k}

\* C1 (reference stability): an update of a cached message leaves the cache
\* entry pointing at the same object, returns that very object, creates no
\* other message object, and each cached identity has exactly one object.
C1_ReferenceStability ==
    [][ret'.op = "_update" =>
          /\ cache' = cache
          /\ \E k \in DOMAIN cache : cache[k] = ret'.self /\ heap[ret'.self].id = k
          /\ ret'.val = Obj(ret'.self)
          /\ DOMAIN heap' = DOMAIN heap
          /\ \A k \in DOMAIN cache' :
                {r \in DOMAIN heap' : heap'[r].id = k} = {cache'[k]}]_vars

\* C1 witness: a cached message updated more than once, still the cached object
C1_Witness ==
    /\ ret.op = "_update"
    /\ Str("M1") \in DOMAIN cache
    /\ cache[Str("M1")] = ret.self
    /\ ret.val = Obj(ret.self)
    /\ ObjectsOf(Str("M1")) = {ret.self}
    /\ heap[ret.self].content = Str("hi")
    /\ heap[ret.self]._updatedAt = Num(2000)
    /\ heap[ret.self].mentions = Str("mentions-1")

\* C2 (deleted is a one-way latch): once a payload carrying the deletedAt key,
\* whatever its value and its other keys, has been applied, deleted is true,
\* and no step takes deleted from true back to false.
C2_DeletedLatch ==
    [][\A r \in DOMAIN heap' :
          /\ "deletedAt" \in DOMAIN carried'[r] => heap'[r].deleted
          /\ (r \in DOMAIN heap /\ heap[r].deleted) => heap'[r].deleted]_vars

\* C2 witness: a deleted message that updates have also given a content, an
\* updatedAt and mentions
C2_Witness ==
    \E r \in DOMAIN heap :
        /\ ret.op = "_update" /\ ret.self = r
        /\ heap[r].deleted
        /\ "deletedAt" \in DOMAIN carried[r]
        /\ heap[r].content = Str("hi")
        /\ heap[r]._updatedAt = Num(2000)
        /\ heap[r].mentions = Str("mentions-1")

\* C3 (deletedAt is set at most once): once a deletion timestamp has been
\* recorded in _deletedAt, no later step changes it.
C3_DeletedAtSetOnce ==
    [][\A r \in DOMAIN heap :
          heap[r]._deletedAt.t = "number"
              => heap'[r]._deletedAt = heap[r]._deletedAt]_vars

\* C4 (presence, not truthiness, decides a content update): in every reachable
\* state, a payload with content "" sets content to "", a payload without the
\* content key or with content undefined leaves content as it was, and the
\* two outcomes differ when the prior content is not "".
C4_ContentPresence ==
    \A r \in DOMAIN heap :
        /\ \A data \in UpdatePayloads :
              /\ (In("content", data) /\ data["content"] = Str(""))
                    => After(r, data).content = Str("")
              /\ (~In("content", data) \/ data["content"] = Undefined)
                    => After(r, data).content = heap[r].content
        /\ heap[r].content # Str("")
              => After(r, [content |-> Str("")]).content # After(r, EmptyObj).content

\* C4 witness: an update has set a non-empty content to ""
C4_Witness ==
    \E r \in DOMAIN heap :
        /\ ret.op = "_update" /\ ret.self = r
        /\ DOMAIN carried[r] \cap Recognised = {"content"}
        /\ carried[r]["content"] = Str("")
        /\ heap[r].content = Str("")

\* C5 (no recognised key, no effect): in every reachable state, _update with a
\* payload carrying none of content, mentions, updatedAt, deletedAt, embeds
\* leaves every field of the message as it was and allocates nothing.
C5_NoRecognisedKeyNoOp ==
    \A r \in DOMAIN heap :
        \A data \in UpdatePayloads :
            DOMAIN data \cap Recognised = {} =>
                LET u == _update([heap |-> heap, next |-> nextRef], r, data)
                IN  u.heap = heap /\ u.next = nextRef /\ u.ret = r

\* C5 witness: a payload of unrecognised keys only has been applied and the
\* message is as its creation payload left it
C5_Witness ==
    \E r \in DOMAIN heap :
        /\ ret.op = "_update" /\ ret.self = r
        /\ "unknownKey" \in DOMAIN carried[r]
        /\ DOMAIN carried[r] \cap Recognised = {"content"}
        /\ carried[r]["content"] = Str("hello")
        /\ heap[r].content = Str("hello")
        /\ heap[r].mentions = Undefined
        /\ heap[r]._updatedAt = Null
        /\ ~heap[r].deleted /\ heap[r]._deletedAt = Null
        /\ heap[r].embeds = << >>

\* the fields assigned at construction only
Fixed(m) ==
    << m.id, m.channelId, m.serverId, m.groupId, m.type, m.replyMessageIds,
       m.isPrivate, m.isSilent, m.createdById, m.createdByWebhookId, m._createdAt >>

\* C6 (construction-time fields are immutable): no step changes id, channelId,
\* serverId, groupId, type, replyMessageIds, isPrivate, isSilent, createdById,
\* createdByWebhookId or createdAt of an existing message.
C6_ConstructionFieldsImmutable ==
    [][\A r \in DOMAIN heap : Fixed(heap'[r]) = Fixed(heap[r])]_vars

\* C6 witness: a payload carrying another id, channelId, serverId, createdBy,
\* createdAt and replyMessageIds has been applied, and the message has kept its own
C6_Witness ==
    \E r \in DOMAIN heap :
        /\ ret.op = "_update" /\ ret.self = r
        /\ carried[r]["id"] = Str("M9")
        /\ carried[r]["replyMessageIds"] = Arr(<<Str("M8")>>)
        /\ heap[r].id = Str("M1")
        /\ heap[r].channelId = Str("C1")
        /\ heap[r].serverId = Str("S1")
        /\ heap[r].createdById = Str("U1")
        /\ heap[r]._createdAt = Num(1000)
        /\ heap[r].replyMessageIds = Arr(<<Str("M0")>>)

\* the timestamp a payload value gives: parsed, or null when the payload
\* carries the key without a timestamp (undefined, null, "")
Timestamp(v) == IF Truthy(v) THEN DateParse(v) ELSE Null

\* the raw embeds a payload value gives: the array's elements, none when the
\* payload carries the key without an array
RawEmbeds(v) == IF v.t = "array" THEN v.v ELSE << >>

\* C7 (the most recent payload wins, per field): after the creation payload and
\* any sequence of updates, content, mentions, updatedAt, deleted/deletedAt and
\* embeds hold what the most recent payload carrying their key gave, or their
\* construction value when no payload carried it; createdAt is the creation
\* payload's.
C7_LastPayloadWins ==
    \A r \in DOMAIN heap :
        LET m == heap[r]
            h == carried[r]
            Has(k) == k \in DOMAIN h
        IN  /\ m.content = IF Has("content") THEN h["content"] ELSE Str("")
            /\ m.mentions = IF Has("mentions") THEN h["mentions"] ELSE Undefined
            /\ m._updatedAt = IF Has("updatedAt") THEN Timestamp(h["updatedAt"]) ELSE Null
            /\ m.deleted = Has("deletedAt")
            /\ m._deletedAt = IF Has("deletedAt") THEN DateParse(h["deletedAt"]) ELSE Null
            /\ [i \in 1..Len(m.embeds) |-> m.embeds[i].raw]
                 = IF Has("embeds") THEN RawEmbeds(h["embeds"]) ELSE << >>
            /\ m._createdAt = Num(1000)

\* C7 witness: after creation, updates carrying content "hi" and updatedAt t2,
\* and no other recognised key, have been applied
C7_Witness ==
    \E r \in DOMAIN heap :
        /\ ret.op = "_update" /\ ret.self = r
        /\ DOMAIN carried[r] \cap Recognised = {"content", "updatedAt"}
        /\ carried[r]["content"] = Str("hi")
        /\ carried[r]["updatedAt"] = Str(T2S)
        /\ heap[r].content = Str("hi")
        /\ heap[r]._updatedAt = Num(2000)
        /\ updatedAt(heap[r]) = Date(Num(2000))
        /\ createdAt(heap[r]) = Date(Num(1000))

\* sub occurs in the string s
Contains(s, sub) ==
    \E i \in 1..(Len(s) - Len(sub) + 1) : SubSeq(s, i, i + Len(sub) - 1) = sub

\* the cached instance under key k of cache c, null when c has no entry for k
Lookup(c, k) == IF k \in DOMAIN c THEN Obj(c[k]) ELSE Null

\* C8 (authorId): authorId is createdByWebhookId when that is not null and
\* createdById otherwise; a message whose creation payload had no
\* createdByWebhookId key has createdByWebhookId null and authorId createdById.
C8_AuthorId ==
    \A r \in DOMAIN heap :
        LET m == heap[r]
        IN  /\ authorId(m) = IF m.createdByWebhookId # Null
                             THEN m.createdByWebhookId ELSE m.createdById
            /\ "createdByWebhookId" \notin DOMAIN carried[r]
                  => m.createdByWebhookId = Null /\ authorId(m) = m.createdById
            /\ (ret.op = "authorId" /\ ret.self = r) => ret.val = authorId(m)

\* C8 witness: authorId read on a message created by webhook W1 for user U1
C8_Witness ==
    /\ ret.op = "authorId"
    /\ heap[ret.self].createdById = Str("U1")
    /\ heap[ret.self].createdByWebhookId = Str("W1")
    /\ ret.val = Str("W1")

\* "/chat/<channelId>?messageId=<id>" of the message m
ChatPath(m) == "/chat/" \o m.channelId.v \o "?messageId=" \o m.id.v

\* C9 as claimed (url): "" when serverId is null, and for every other serverId
\* a URL containing /chat/<channelId>?messageId=<id>.
C9_UrlAsClaimed ==
    \A r \in DOMAIN heap :
        LET m == heap[r]
        IN  /\ m.serverId = Null => url(m) = Str("")
            /\ m.serverId # Null => Contains(url(m).v, ChatPath(m))

\* C9 as amended (url): "" when serverId is null or the empty string, and for
\* every other serverId a URL containing /chat/<channelId>?messageId=<id>.
C9_Url ==
    \A r \in DOMAIN heap :
        LET m == heap[r]
        IN  /\ m.serverId \in {Null, Str("")} => url(m) = Str("")
            /\ m.serverId \notin {Null, Str("")} => Contains(url(m).v, ChatPath(m))
            /\ (ret.op = "url" /\ ret.self = r) => ret.val = url(m)

\* C9 witness: url read on message M1 of channel C1 in server S1
C9_Witness ==
    /\ ret.op = "url"
    /\ heap[ret.self].serverId = Str("S1")
    /\ heap[ret.self].channelId = Str("C1")
    /\ heap[ret.self].id = Str("M1")
    /\ ret.val = Str("https://www.guilded.gg/chat/C1?messageId=M1")

\* the member key (serverId, authorId) of the message m
MemberKeyOf(m) ==
    buildMemberKey(m.serverId, IF m.createdByWebhookId # Null
                               THEN m.createdByWebhookId ELSE m.createdById)

\* C10 as claimed (relationship accessors): author, channel, server, member
\* give the instance cached under createdById, channelId, serverId, the member
\* key, null when the cache has no such entry; member and server give null
\* when serverId is null.
C10_RelationsAsClaimed ==
    \A r \in DOMAIN heap :
        LET m == heap[r]
        IN  /\ author(m) = Lookup(users, m.createdById)
            /\ channel(m) = Lookup(channels, m.channelId)
            /\ server(m) = IF m.serverId = Null THEN Null
                           ELSE Lookup(servers, m.serverId)
            /\ member(m) = IF m.serverId = Null THEN Null
                           ELSE Lookup(members, MemberKeyOf(m))

\* C10 as amended (relationship accessors): as claimed, except that member and
\* server give null, whatever their caches hold, when serverId is null or the
\* empty string.
C10_Relations ==
    \A r \in DOMAIN heap :
        LET m == heap[r]
            noServer == m.serverId \in {Null, Str("")}
        IN  /\ author(m) = Lookup(users, m.createdById)
            /\ channel(m) = Lookup(channels, m.channelId)
            /\ server(m) = IF noServer THEN Null ELSE Lookup(servers, m.serverId)
            /\ member(m) = IF noServer THEN Null ELSE Lookup(members, MemberKeyOf(m))
            /\ (ret.op = "author" /\ ret.self = r) => ret.val = author(m)
            /\ (ret.op = "channel" /\ ret.self = r) => ret.val = channel(m)
            /\ (ret.op = "server" /\ ret.self = r) => ret.val = server(m)
            /\ (ret.op = "member" /\ ret.self = r) => ret.val = member(m)

\* C10 witness: member read on a webhook's message in server S1 gives the
\* cached member of (S1, W1), while the author U1 and the channel are not cached
C10_Witness ==
    /\ ret.op = "member"
    /\ heap[ret.self].serverId = Str("S1")
    /\ heap[ret.self].createdByWebhookId = Str("W1")
    /\ buildMemberKey(Str("S1"), Str("W1")) \in DOMAIN members
    /\ ret.val = Obj(members[buildMemberKey(Str("S1"), Str("W1"))])
    /\ author(heap[ret.self]) = Null
    /\ channel(heap[ret.self]) = Null
    /\ Str("S1") \in DOMAIN servers
    /\ server(heap[ret.self]) = Obj(servers[Str("S1")])

\* C15 (content is always a string): in every reachable state the content of
\* every message is a string, whatever the creation payload and the update
\* payloads carried for content (a string, "", null, undefined or no key).
C15_ContentIsString ==
    \A r \in DOMAIN heap : heap[r].content.t = "string"

\* C17 (updatedAt follows key presence): a message no payload gave the
\* updatedAt key, its creation payload included, has _updatedAt null; in every
\* reachable state a payload with a truthy updatedAt sets _updatedAt to the
\* parsed timestamp, a payload with the key and a falsy value (null, undefined,
\* "") sets it to null, and a payload without the key leaves it as it was.
C17_UpdatedAtFollowsKey ==
    \A r \in DOMAIN heap :
        /\ ~In("updatedAt", carried[r]) => heap[r]._updatedAt = Null
        /\ (ret.op = "new" /\ ret.self = r /\ In("updatedAt", carried[r]))
              => heap[r]._updatedAt = DateParse(carried[r]["updatedAt"])
        /\ \A data \in UpdatePayloads :
              /\ ~In("updatedAt", data)
                    => After(r, data)._updatedAt = heap[r]._updatedAt
              /\ (In("updatedAt", data) /\ Truthy(data["updatedAt"]))
                    => After(r, data)._updatedAt = DateParse(data["updatedAt"])
              /\ (In("updatedAt", data)
                    /\ data["updatedAt"] \in {Null, Undefined, Str("")})
                    => After(r, data)._updatedAt = Null

\* C17 witness: a message created with an updatedAt, which an update carrying
\* updatedAt null has reset
C17_Witness ==
    \E r \in DOMAIN heap :
        /\ ret.op = "_update" /\ ret.self = r
        /\ heap[r].serverId = Str("S1")
        /\ In("updatedAt", carried[r])
        /\ carried[r]["updatedAt"] = Null
        /\ heap[r]._updatedAt = Null

\* C18 (mentions are replaced wholesale on key presence): in every reachable
\* state a payload that has the mentions key leaves mentions equal to the
\* payload's value, undefined included, whatever mentions held before, and a
\* payload without the key leaves mentions as it was.
C18_MentionsReplaced ==
    \A r \in DOMAIN heap :
        \A data \in UpdatePayloads :
            /\ In("mentions", data) => After(r, data).mentions = data["mentions"]
            /\ (In("mentions", data) /\ data["mentions"] = Undefined)
                  => ~IsDefined(After(r, data).mentions)
            /\ ~In("mentions", data) => After(r, data).mentions = heap[r].mentions

\* C18 witness: a message with embeds whose most recent mentions payload had
\* the key with the value undefined, and whose mentions are undefined
C18_Witness ==
    \E r \in DOMAIN heap :
        /\ ret.op = "_update" /\ ret.self = r
        /\ In("mentions", carried[r])
        /\ carried[r]["mentions"] = Undefined
        /\ heap[r].mentions = Undefined
        /\ heap[r].embeds # << >>

\* C19 (embeds are replaced wholesale on key presence): in every reachable
\* state a payload that has the embeds key leaves embeds a sequence with one
\* Embed per raw element, in the payload's order, each a newly constructed
\* object that is none of the Embeds or messages existing before and none of
\* its neighbours, and the empty sequence when the value is undefined or an
\* empty array; a payload without the key leaves embeds as it was.
C19_EmbedsReplaced ==
    \A r \in DOMAIN heap :
        \A data \in UpdatePayloads :
            LET new == After(r, data).embeds
                raw == RawEmbeds(Get(data, "embeds"))
                old == {heap[r].embeds[i].oid : i \in 1..Len(heap[r].embeds)}
            IN  /\ In("embeds", data) =>
                      /\ Len(new) = Len(raw)
                      /\ \A i \in 1..Len(new) :
                            /\ new[i].raw = raw[i]
                            /\ new[i].oid \notin old \cup DOMAIN heap
                            /\ new[i].oid >= nextRef
                            /\ \A j \in 1..Len(new) : new[j].oid = new[i].oid => j = i
                      /\ data["embeds"] \in {Undefined, Arr(<< >>)} => new = << >>
                /\ ~In("embeds", data) => new = heap[r].embeds

\* C19 witness: a message that was given an embed, after an update with an
\* empty embeds array has replaced it
C19_Witness ==
    \E r \in DOMAIN heap :
        /\ ret.op = "_update" /\ ret.self = r
        /\ nextRef = 3
        /\ In("embeds", carried[r])
        /\ carried[r]["embeds"] = Arr(<< >>)
        /\ heap[r].embeds = << >>

\* what a reader sees of the mutable part of a message, embeds by value
Observable(m) ==
    << m.content, m.mentions, m._updatedAt, updatedAt(m), m.deleted, m._deletedAt,
       deletedAt(m), [i \in 1..Len(m.embeds) |-> m.embeds[i].raw] >>

\* C13 (_update is idempotent): in every reachable state and for every
\* payload, applying the payload twice in a row leaves content, mentions,
\* updatedAt, deleted, deletedAt and the embeds' values as applying it once
\* does, and returns the same object both times.
C13_UpdateIdempotent ==
    \A r \in DOMAIN heap :
        \A data \in UpdatePayloads :
            LET once == _update([heap |-> heap, next |-> nextRef], r, data)
                twice == _update([heap |-> once.heap, next |-> once.next], r, data)
            IN  /\ Observable(twice.heap[r]) = Observable(once.heap[r])
                /\ twice.ret = once.ret

\* C13 witness: the same one-embed payload delivered twice: the message holds
\* the second Embed object built for it, with the value of the first
C13_Witness ==
    \E r \in DOMAIN heap :
        /\ ret.op = "_update" /\ ret.self = r
        /\ nextRef = 4
        /\ In("embeds", carried[r])
        /\ carried[r]["embeds"] = Arr(<<"embed-1">>)
        /\ heap[r].embeds = <<Embed("embed-1", 3)>>

ReadOps ==
    {"createdAt", "updatedAt", "deletedAt", "url", "authorId", "author",
     "member", "channel", "server"}

\* C11 (accessors have no side effects): a read of any accessor, hit or miss,
\* leaves every message object, the message cache and the four sibling caches
\* as they were, a miss inserting nothing, and hands no request to the
\* transport.
C11_ReadsChangeNothing ==
    [][ret'.op \in ReadOps =>
          /\ heap' = heap /\ nextRef' = nextRef /\ cache' = cache
          /\ users' = users /\ channels' = channels
          /\ servers' = servers /\ members' = members
          /\ reactions' = reactions
          /\ outbox' = outbox]_vars

\* C11 witness: author read on a message whose creator is not cached: the
\* result is null and the user cache still has no entry for the creator
C11_Witness ==
    /\ ret.op = "author"
    /\ ret.val = Null
    /\ heap[ret.self].createdById \notin DOMAIN users
    /\ users # EmptyObj
    /\ outbox = << >>

\* the action methods of Message
ActionOps == {"edit", "send", "reply", "addReaction", "deleteReaction", "delete"}

C20_ReplyRequest ==
    [][(ret'.op = "reply" /\ ret'.val = Pending) =>
          LET m == heap[ret'.self]
              data == resolveContentToData(ret'.arg)
              req == outbox'[Len(outbox')]
          IN  /\ outbox' = Append(outbox, req)
              /\ req.call = "messages.send"
              /\ Len(req.args) = 2
              /\ req.args[1] = m.channelId
              /\ DOMAIN req.args[2] = DOMAIN data \cup {"replyMessageIds"}
              /\ req.args[2]["replyMessageIds"] = Arr(<<m.id>>)
              /\ \A k \in DOMAIN data \ {"replyMessageIds"} :
                    req.args[2][k] = data[k]]_vars

\* C20 witness: reply was called with a content object naming another reply
\* target, and the request in the outbox names this message alone and keeps
\* the object's embeds
C20_Witness ==
    /\ ret.op = "reply" /\ ret.val = Pending
    /\ In("replyMessageIds", ret.arg)
    /\ ret.arg["replyMessageIds"] = Arr(<<Str("M7")>>)
    /\ heap[ret.self].channelId = Str("C2")
    /\ outbox[Len(outbox)].args[1] = Str("C2")
    /\ outbox[Len(outbox)].args[2]["replyMessageIds"] = Arr(<<Str("M1")>>)
    /\ outbox[Len(outbox)].args[2]["embeds"] = Arr(<<"embed-1">>)

\* C14 (a reaction's id is its composite key): the id of every reaction object
\* is the reaction key of its createdBy and emote.id; two reaction objects
\* have equal ids exactly when their createdBy are equal and their emote.id
\* are equal, whatever their channelId, messageId and serverId; and no step
\* changes the id or the key fields of a reaction object once constructed.
C14_ReactionId ==
    [][/\ \A a \in DOMAIN reactions' :
            /\ reactions'[a].id
                  = buildReactionKey(reactions'[a].createdBy, reactions'[a].emote.id)
            /\ \A b \in DOMAIN reactions' :
                  (reactions'[a].id = reactions'[b].id)
                      <=> /\ reactions'[a].createdBy = reactions'[b].createdBy
                          /\ reactions'[a].emote.id = reactions'[b].emote.id
       /\ \A a \in DOMAIN reactions : reactions'[a] = reactions[a]]_vars

\* C14 witness: two reactions by the same user with the same emote on
\* different messages, with one id
C14_Witness ==
    /\ ret.op = "newReaction"
    /\ \E a, b \in DOMAIN reactions :
          /\ a # b
          /\ reactions[a].messageId # reactions[b].messageId
          /\ reactions[a].createdBy = reactions[b].createdBy
          /\ reactions[a].emote.id = reactions[b].emote.id
          /\ reactions[a].id = Str("U1:42")
          /\ reactions[b].id = Str("U1:42")

====
